---- MODULE Spec2Model ----
(***************************************************************************)
(* Model of text_to_video and of the upload_file handler that calls it     *)
(* (src/api/app.py).  Every request owns its locals; the file system is    *)
(* shared: the narration audio is always written to the one path           *)
(* UPLOAD_FOLDER/temp.mp3, the output video to a per-request uuid path.    *)
(*                                                                         *)
(* Durations are Python floats in the code.  They are modelled as exact    *)
(* fractions <<numerator, denominator>>: the audio length is an integer    *)
(* number of milliseconds, and the per-word duration is ms / (1000 * n).   *)
(***************************************************************************)
EXTENDS Integers, Sequences, FiniteSets, TLC

\* ---- bounds of the model ----
MaxTextLen == 9          \* longest text, in characters, of a single request
MaxConcTextLen == 1      \* longest text when two requests run concurrently
MaxImages == 4           \* most background images supplied with a request
MaxConcImages == 1       \* the same, when two requests run concurrently

\* ---- program constants ----
BACKGROUND_INTERVALS == <<10, 22, 35>>
MsPerSecond == 1000

Procs == {1, 2}
Chars == {"a", " "}
None == [none |-> TRUE]
NoFile == [absent |-> TRUE]

\* Lengths, in milliseconds per word, of the narration the synthesis service
\* returns, and the length of a fixed 6.0 s narration.
PerWordMs == {5000, 70000}
FixedNarrationMs == {6000}

VARIABLES
    workers,                   \* requests served in this run
    pc,                        \* position of each request
    caller,                    \* who called text_to_video: "http" (upload_file), "direct", "none"
    text, font_exists, nImages,        \* arguments of text_to_video
    words, images, durations,          \* locals of text_to_video
    i,                                 \* index of the next word the loop takes
    full_audio,                        \* the AudioSegment read from temp.mp3
    avg_word_duration,
    current_background_index, background_change_time, image_duration,
    audioclip,                         \* the AudioFileClip opened on temp.mp3
    err,                               \* the exception raised, if any
    response,                          \* what upload_file returned
    tempFile,                          \* contents of UPLOAD_FOLDER/temp.mp3
    outputfile                         \* state of each request's output path

vars == <<workers, pc, caller, text, font_exists, nImages, words, images,
          durations, i, full_audio, avg_word_duration, current_background_index,
          background_change_time, image_duration, audioclip, err, response,
          tempFile, outputfile>>

\* ---- pure helpers ----

RECURSIVE SeqsUpTo(_, _)
SeqsUpTo(S, n) ==
    IF n = 0 THEN {<<>>}
    ELSE LET shorter == SeqsUpTo(S, n - 1)
         IN  shorter \cup {Append(s, c) : s \in {t \in shorter : Len(t) = n - 1}, c \in S}

TextBound == IF workers = {1} THEN MaxTextLen ELSE MaxConcTextLen
ImageBound == IF workers = {1} THEN MaxImages ELSE MaxConcImages

\* str.split(): split on runs of whitespace, empty segments discarded.
RECURSIVE SplitFrom(_, _, _)
SplitFrom(s, k, cur) ==
    IF k > Len(s) THEN (IF cur = <<>> THEN <<>> ELSE <<cur>>)
    ELSE IF s[k] = " "
         THEN (IF cur = <<>> THEN SplitFrom(s, k + 1, <<>>)
               ELSE <<cur>> \o SplitFrom(s, k + 1, <<>>))
         ELSE SplitFrom(s, k + 1, Append(cur, s[k]))

Split(s) == SplitFrom(s, 1, <<>>)

\* fractions
RAdd(a, b) == IF a[2] = b[2] THEN <<a[1] + b[1], a[2]>>
              ELSE <<a[1] * b[2] + b[1] * a[2], a[2] * b[2]>>
RGeqInt(a, k) == a[1] >= k * a[2]
REq(a, b) == a[1] * b[2] = b[1] * a[2]
RZero == <<0, 1>>

\* full_audio_duration = len(full_audio) / 1000
FullAudioDuration(ms) == <<ms, MsPerSecond>>

\* avg_word_duration = full_audio_duration / len(words), for len(words) > 0
AvgWordDurationNoCount(d, n) == <<d[1], d[2]>>
AvgWordDuration(d, n) == <<d[1], d[2] * n>>

\* image_duration >= background_change_time
SwitchDue(elapsed, change_time) == RGeqInt(elapsed, change_time)

\* current_background_index = (current_background_index + 1) % len(background_images)
NextIndexStay(idx, n) == idx
NextIndex(idx, n) == (idx + 1) % n

\* if current_background_index < len(BACKGROUND_INTERVALS):
\*     background_change_time += BACKGROUND_INTERVALS[current_background_index]
NextChangeTimeAlways(change_time, idx) ==
    change_time + BACKGROUND_INTERVALS[(idx % Len(BACKGROUND_INTERVALS)) + 1]
NextChangeTime(change_time, idx) ==
    IF idx < Len(BACKGROUND_INTERVALS)
    THEN change_time + BACKGROUND_INTERVALS[idx + 1]
    ELSE change_time

\* if not os.path.exists(font_path): raise FileNotFoundError
FontCheckSkipped(exists) == "none"
FontCheck(exists) == IF exists THEN "none" ELSE "FileNotFoundError"

\* the frame drawn for a word over a background
RenderFrameFirstWord(ws, k, bg) == [word |-> ws[1], bg |-> bg]
RenderFrame(ws, k, bg) == [word |-> ws[k], bg |-> bg]

\* what upload_file returns once text_to_video has returned or raised
HandlerResponseAlwaysRedirect(raised) == "redirect"
HandlerResponse(raised) == IF raised THEN "error500" ELSE "redirect"

AudioMsChoices(n) == FixedNarrationMs \cup {r * n : r \in {q \in PerWordMs : n > 0}}

Set(p, f, v) == [f EXCEPT ![p] = v]

\* ---- initial states ----

InitLocals ==
    /\ pc = [p \in Procs |-> IF p \in workers THEN "request" ELSE "off"]
    /\ caller = [p \in Procs |-> "none"]
    /\ text = [p \in Procs |-> <<>>]
    /\ font_exists = [p \in Procs |-> FALSE]
    /\ nImages = [p \in Procs |-> 0]
    /\ words = [p \in Procs |-> <<>>]
    /\ images = [p \in Procs |-> <<>>]
    /\ durations = [p \in Procs |-> <<>>]
    /\ i = [p \in Procs |-> 0]
    /\ full_audio = [p \in Procs |-> None]
    /\ avg_word_duration = [p \in Procs |-> None]
    /\ current_background_index = [p \in Procs |-> 0]
    /\ background_change_time = [p \in Procs |-> 0]
    /\ image_duration = [p \in Procs |-> RZero]
    /\ audioclip = [p \in Procs |-> None]
    /\ err = [p \in Procs |-> "none"]
    /\ response = [p \in Procs |-> "none"]
    /\ tempFile = NoFile
    /\ outputfile = [p \in Procs |-> "absent"]

Init == workers = {1} /\ InitLocals

InitConc == workers = Procs /\ InitLocals

\* ---- actions ----

Locals == <<words, images, durations, i, full_audio, avg_word_duration,
            current_background_index, background_change_time, image_duration,
            audioclip>>
Args == <<text, font_exists, nImages>>
Files == <<tempFile, outputfile>>

Raise(p, e) ==
    /\ pc' = Set(p, pc, "raised")
    /\ err' = Set(p, err, e)

\* upload_file up to the call of text_to_video
UploadFile(p) ==
    /\ pc[p] = "request"
    /\ \E method \in {"GET", "POST"}, present \in BOOLEAN,
          textAllowed \in BOOLEAN, fontAllowed \in BOOLEAN,
          t \in SeqsUpTo(Chars, TextBound), n \in 0..ImageBound :
         IF method = "GET"
         THEN /\ response' = Set(p, response, "form")
              /\ pc' = Set(p, pc, "responded")
              /\ UNCHANGED <<Args, err, caller>>
         ELSE IF ~present
         THEN /\ response' = Set(p, response, "missing400")
              /\ pc' = Set(p, pc, "responded")
              /\ UNCHANGED <<Args, err, caller>>
         ELSE IF ~fontAllowed
         THEN /\ response' = Set(p, response, "invalidfont400")
              /\ pc' = Set(p, pc, "responded")
              /\ UNCHANGED <<Args, err, caller>>
         ELSE IF ~textAllowed
         THEN \* text_content is unbound when the call's arguments are evaluated
              /\ err' = Set(p, err, "UnboundLocalError")
              /\ response' = Set(p, response, HandlerResponse(TRUE))
              /\ pc' = Set(p, pc, "responded")
              /\ UNCHANGED <<Args, caller>>
         ELSE /\ text' = Set(p, text, t)
              /\ font_exists' = Set(p, font_exists, TRUE)
              /\ nImages' = Set(p, nImages, n)
              /\ caller' = Set(p, caller, "http")
              /\ pc' = Set(p, pc, "entry")
              /\ UNCHANGED <<err, response>>
    /\ UNCHANGED <<workers, Locals, Files>>

\* a direct call of text_to_video with arbitrary arguments
CallTextToVideo(p) ==
    /\ pc[p] = "request"
    /\ \E t \in SeqsUpTo(Chars, TextBound), n \in 0..ImageBound, f \in BOOLEAN :
         /\ text' = Set(p, text, t)
         /\ font_exists' = Set(p, font_exists, f)
         /\ nImages' = Set(p, nImages, n)
    /\ caller' = Set(p, caller, "direct")
    /\ pc' = Set(p, pc, "entry")
    /\ UNCHANGED <<workers, Locals, Files, err, response>>

\* words = text.split(); the font check; ImageFont.truetype
Entry(p) ==
    /\ pc[p] = "entry"
    /\ words' = Set(p, words, Split(text[p]))
    /\ images' = Set(p, images, <<>>)
    /\ durations' = Set(p, durations, <<>>)
    /\ IF FontCheck(font_exists[p]) # "none"
       THEN Raise(p, FontCheck(font_exists[p]))
       ELSE pc' = Set(p, pc, "tts_save") /\ UNCHANGED err
    /\ UNCHANGED <<workers, caller, Args, i, full_audio, avg_word_duration,
                   current_background_index, background_change_time,
                   image_duration, audioclip, response, Files>>

\* gTTS(text).save(temp_audio_path)
TtsSave(p) ==
    /\ pc[p] = "tts_save"
    /\ \/ \E ms \in AudioMsChoices(Len(words[p])) :
            /\ tempFile' = [by |-> p, ms |-> ms]
            /\ pc' = Set(p, pc, "measure")
            /\ UNCHANGED err
       \/ \* the synthesis service fails; the file is untouched or left empty
          /\ Raise(p, "gTTSError")
          /\ \/ UNCHANGED tempFile
             \/ tempFile' = [by |-> p, ms |-> 0]
    /\ UNCHANGED <<workers, caller, Args, Locals, response, outputfile>>

\* AudioSegment.from_file, the durations and the scheduler's initial state
Measure(p) ==
    /\ pc[p] = "measure"
    /\ IF tempFile = NoFile
       THEN Raise(p, "FileNotFoundError")
            /\ UNCHANGED <<full_audio, avg_word_duration, current_background_index,
                           background_change_time, image_duration>>
       ELSE IF tempFile.ms = 0
       THEN Raise(p, "CouldntDecodeError")
            /\ UNCHANGED <<full_audio, avg_word_duration, current_background_index,
                           background_change_time, image_duration>>
       ELSE /\ full_audio' = Set(p, full_audio, tempFile)
            /\ IF Len(words[p]) = 0
               THEN Raise(p, "ZeroDivisionError")
                    /\ UNCHANGED <<avg_word_duration, current_background_index,
                                   background_change_time, image_duration>>
               ELSE /\ avg_word_duration' = Set(p, avg_word_duration,
                          AvgWordDuration(FullAudioDuration(tempFile.ms), Len(words[p])))
                    /\ current_background_index' = Set(p, current_background_index, 0)
                    /\ background_change_time' =
                          Set(p, background_change_time, BACKGROUND_INTERVALS[0 + 1])
                    /\ image_duration' = Set(p, image_duration, RZero)
                    /\ pc' = Set(p, pc, "loop")
                    /\ UNCHANGED err
    /\ UNCHANGED <<workers, caller, Args, words, images, durations, i, audioclip,
                   response, Files>>

\* top of one iteration: the background switch
LoopSwitch(p) ==
    /\ pc[p] = "loop"
    /\ i[p] < Len(words[p])
    /\ IF SwitchDue(image_duration[p], background_change_time[p])
       THEN IF nImages[p] = 0
            THEN Raise(p, "ZeroDivisionError")
                 /\ UNCHANGED <<current_background_index, background_change_time,
                                image_duration>>
            ELSE LET idx == NextIndex(current_background_index[p], nImages[p])
                 IN  /\ current_background_index' = Set(p, current_background_index, idx)
                     /\ background_change_time' = Set(p, background_change_time,
                            NextChangeTime(background_change_time[p], idx))
                     /\ image_duration' = Set(p, image_duration, RZero)
                     /\ pc' = Set(p, pc, "render")
                     /\ UNCHANGED err
       ELSE /\ pc' = Set(p, pc, "render")
            /\ UNCHANGED <<err, current_background_index, background_change_time,
                           image_duration>>
    /\ UNCHANGED <<workers, caller, Args, words, images, durations, i, full_audio,
                   avg_word_duration, audioclip, response, Files>>

\* rest of the iteration: open the background, draw the word, append
LoopRender(p) ==
    /\ pc[p] = "render"
    /\ IF current_background_index[p] >= nImages[p]
       THEN Raise(p, "IndexError")
            /\ UNCHANGED <<images, durations, i, image_duration>>
       ELSE \/ /\ Raise(p, "UnidentifiedImageError")
               /\ UNCHANGED <<images, durations, i, image_duration>>
            \/ /\ images' = Set(p, images, Append(images[p],
                     RenderFrame(words[p], i[p] + 1, current_background_index[p])))
               /\ durations' = Set(p, durations, Append(durations[p], avg_word_duration[p]))
               /\ image_duration' = Set(p, image_duration,
                     RAdd(image_duration[p], avg_word_duration[p]))
               /\ i' = Set(p, i, i[p] + 1)
               /\ pc' = Set(p, pc, "loop")
               /\ UNCHANGED err
    /\ UNCHANGED <<workers, caller, Args, words, full_audio, avg_word_duration,
                   current_background_index, background_change_time, audioclip,
                   response, Files>>

\* AudioFileClip(temp_audio_path), after the last word
OpenAudioClip(p) ==
    /\ pc[p] = "loop"
    /\ i[p] = Len(words[p])
    /\ IF tempFile = NoFile \/ (tempFile # NoFile /\ tempFile.ms = 0)
       THEN Raise(p, "OSError") /\ UNCHANGED audioclip
       ELSE /\ audioclip' = Set(p, audioclip, tempFile)
            /\ pc' = Set(p, pc, "write")
            /\ UNCHANGED err
    /\ UNCHANGED <<workers, caller, Args, words, images, durations, i, full_audio,
                   avg_word_duration, current_background_index,
                   background_change_time, image_duration, response, Files>>

\* ImageSequenceClip, set_audio, write_videofile
WriteVideoFile(p) ==
    /\ pc[p] = "write"
    /\ \/ /\ outputfile' = Set(p, outputfile, "complete")
          /\ pc' = Set(p, pc, "remove")
          /\ UNCHANGED err
       \/ \* the encoder fails before or partway through writing
          /\ \E left \in {"absent", "partial"} : outputfile' = Set(p, outputfile, left)
          /\ Raise(p, "IOError")
    /\ UNCHANGED <<workers, caller, Args, Locals, response, tempFile>>

\* os.remove(temp_audio_path)
RemoveTemp(p) ==
    /\ pc[p] = "remove"
    /\ IF tempFile = NoFile
       THEN Raise(p, "FileNotFoundError") /\ UNCHANGED tempFile
       ELSE /\ tempFile' = NoFile
            /\ pc' = Set(p, pc, "returned")
            /\ UNCHANGED err
    /\ UNCHANGED <<workers, caller, Args, Locals, response, outputfile>>

\* upload_file after the call: the redirect, or the except clause
UploadFileRespond(p) ==
    /\ pc[p] \in {"returned", "raised"}
    /\ caller[p] = "http"
    /\ response' = Set(p, response, HandlerResponse(pc[p] = "raised"))
    /\ pc' = Set(p, pc, "responded")
    /\ UNCHANGED <<workers, caller, Args, Locals, err, Files>>

Next ==
    \E p \in Procs :
        \/ UploadFile(p)
        \/ CallTextToVideo(p)
        \/ Entry(p)
        \/ TtsSave(p)
        \/ Measure(p)
        \/ LoopSwitch(p)
        \/ LoopRender(p)
        \/ OpenAudioClip(p)
        \/ WriteVideoFile(p)
        \/ RemoveTemp(p)
        \/ UploadFileRespond(p)

Spec == Init /\ [][Next]_vars

SpecConc == InitConc /\ [][Next]_vars

\* ---- properties ----

Terminal == {"returned", "raised", "responded"}
LoopDone == {"write", "remove", "returned"}
InRange(idx) == idx < Len(BACKGROUND_INTERVALS)
SwitchStep(p) ==
    /\ pc[p] = "loop"
    /\ pc'[p] = "render"
    /\ SwitchDue(image_duration[p], background_change_time[p])

RECURSIVE RSum(_)
RSum(ds) == IF ds = <<>> THEN RZero ELSE RAdd(RSum(Tail(ds)), Head(ds))

\* C1: under every interleaving of two requests, each one measures and muxes
\* only the narration it synthesized itself, and while a request still has to
\* read temp.mp3 the file is there and holds that request's own narration.
C1_NoSharedState ==
    \A p \in Procs :
        /\ full_audio[p] # None => full_audio[p].by = p
        /\ audioclip[p] # None => audioclip[p].by = p
        /\ pc[p] \in {"measure", "loop", "render"} =>
              IF tempFile = NoFile THEN FALSE ELSE tempFile.by = p

\* C2 (as stated): once the background index is outside the range of the
\* threshold list, no later step of the same run changes the index.
C2_NoSwitchAfterExhaustion ==
    [][\A p \in Procs :
          ~InRange(current_background_index[p]) =>
              current_background_index'[p] = current_background_index[p]]_vars

\* C2 (amended): a switch that moves the index outside the range of the
\* threshold list leaves background_change_time as it was and resets the
\* elapsed time to 0; switching does not cease: whenever the elapsed time has
\* reached background_change_time at the top of an iteration the index moves
\* one step on, also when it is already outside the range.
C2_ExhaustedThresholdKept ==
    [][\A p \in Procs :
          (SwitchStep(p) /\ nImages[p] > 0) =>
              /\ current_background_index'[p] =
                    (current_background_index[p] + 1) % nImages[p]
              /\ image_duration'[p] = RZero
              /\ ~InRange(current_background_index'[p]) =>
                    background_change_time'[p] = background_change_time[p]]_vars

C2_Witness ==
    /\ nImages[1] = 4
    /\ Len(images[1]) = 5
    /\ images[1][4].bg = 3
    /\ images[1][5].bg = 0
    /\ background_change_time[1] = 77

\* C3: in every terminal state of an invocation that got as far as reading
\* the saved narration, temp.mp3 no longer exists.
C3_TempAudioReleased ==
    \A p \in Procs :
        (pc[p] \in Terminal /\ full_audio[p] # None) => tempFile = NoFile

\* C4: an invocation on a text without words whose narration was synthesized
\* ends with InvalidInputError, with no frame and no output file.
C4_EmptyTextInvalidInput ==
    \A p \in Procs :
        (pc[p] \in Terminal /\ full_audio[p] # None /\ Split(text[p]) = <<>>) =>
            /\ err[p] = "InvalidInputError"
            /\ images[p] = <<>>
            /\ outputfile[p] = "absent"

\* C5: text_to_video called with a font path that does not exist fails with
\* the font error straight after the entry step: nothing was synthesized,
\* measured, rendered or written, and the loop never runs.
C5_FontMissingFailsFirst ==
    \A p \in Procs :
        (caller[p] # "none" /\ ~font_exists[p] /\ pc[p] # "entry") =>
            /\ pc[p] \in {"raised", "responded"}
            /\ err[p] = "FileNotFoundError"
            /\ images[p] = <<>> /\ durations[p] = <<>> /\ i[p] = 0
            /\ full_audio[p] = None /\ audioclip[p] = None
            /\ outputfile[p] = "absent"

C5_Witness ==
    /\ caller[1] = "direct" /\ ~font_exists[1] /\ Len(Split(text[1])) = 2
    /\ nImages[1] = 2 /\ pc[1] = "raised" /\ err[1] = "FileNotFoundError"

\* C6: upload_file redirects to the download endpoint only after
\* text_to_video returned normally with a complete output file; every
\* failure is answered by the error response.
C6_NoPathOnFailure ==
    \A p \in Procs :
        /\ response[p] = "redirect" =>
              err[p] = "none" /\ outputfile[p] = "complete"
        /\ (pc[p] = "responded" /\ err[p] # "none") => response[p] = "error500"

C6_Witness ==
    /\ pc[1] = "responded" /\ err[1] = "IOError" /\ outputfile[1] = "partial"
    /\ response[1] = "error500"

\* C7: the frames and the durations grow together, one per processed word and
\* in the order of text.split(); when the loop has completed there is exactly
\* one frame per word.
C7_OneFramePerWord ==
    \A p \in Procs :
        /\ Len(images[p]) = Len(durations[p])
        /\ pc[p] \in {"loop", "render"} => Len(images[p]) = i[p]
        /\ \A j \in 1..Len(images[p]) :
              j <= Len(Split(text[p])) /\ images[p][j].word = Split(text[p])[j]
        /\ pc[p] \in LoopDone => Len(images[p]) = Len(Split(text[p]))

C7_Witness ==
    /\ pc[1] = "write" /\ Len(images[1]) = 3
    /\ images[1][1].word = <<"a">> /\ images[1][2].word = <<"a", "a">>
    /\ images[1][3].word = <<"a", "a", "a">>

C9_ThresholdIsConfigured ==
    \A p \in Procs :
        (pc[p] \in {"loop", "render"} /\ InRange(current_background_index[p])) =>
            background_change_time[p] =
                BACKGROUND_INTERVALS[current_background_index[p] + 1]

\* C10: with at least 2 images every word rendered while the cumulative
\* elapsed time is below 10 s uses background 0 and the first word rendered at
\* 10 s or later uses background 1 (at 5 s per word: words 1 and 2, and word
\* 3); each switch moves the index one step modulo the image count and resets
\* the elapsed time, and the index moves in no other step.
C10_FirstSwitchInv ==
    \A p \in Procs :
        (nImages[p] >= 2 /\ avg_word_duration[p] # None) =>
            LET d == avg_word_duration[p]
                Before(j) == (j - 1) * d[1] < BACKGROUND_INTERVALS[1] * d[2]
            IN  /\ \A j \in 1..Len(images[p]) :
                      /\ Before(j) => images[p][j].bg = 0
                      /\ (~Before(j) /\ (j = 1 \/ Before(j - 1))) => images[p][j].bg = 1
                /\ (REq(d, <<5, 1>>) /\ Len(images[p]) >= 3) =>
                      /\ images[p][1].bg = 0 /\ images[p][2].bg = 0
                      /\ images[p][3].bg = 1

C10_FirstSwitch ==
    /\ []C10_FirstSwitchInv
    /\ [][\A p \in Procs :
            /\ (SwitchStep(p) /\ nImages[p] >= 2) =>
                  /\ current_background_index'[p] =
                        (current_background_index[p] + 1) % nImages[p]
                  /\ image_duration'[p] = RZero
            /\ (pc[p] \in {"loop", "render"} /\ pc'[p] \in {"loop", "render"}
                   /\ ~SwitchStep(p)) =>
                  current_background_index'[p] = current_background_index[p]]_vars

C10_Witness ==
    /\ pc[1] = "render" /\ i[1] = 2
    /\ nImages[1] = 2 /\ REq(avg_word_duration[1], <<5, 1>>) /\ current_background_index[1] = 1
    /\ image_duration[1] = RZero /\ images[1][2].bg = 0
====
